---- MODULE Spec2Model ----
(***************************************************************************)
(* A model of zuu/util_dict.py: the dotted-key flattener / parser and the  *)
(* path traversal operations get_deep, set_deep, del_deep and              *)
(* set_default_deep.                                                       *)
(*                                                                         *)
(* Strings are sequences of one-character strings, so that concatenation,  *)
(* str.split and int() are computed rather than assumed.                   *)
(***************************************************************************)
EXTENDS Integers, Sequences, FiniteSets, TLC

VARIABLES
    data,     \* flatten/parse: the mapping handed to the function
    sep,      \* flatten: the separator argument
    flat,     \* flatten: the returned flat mapping
    parsed,   \* parse: [err, val] of the last parse_dotted_dict call
    fpc,      \* flatten/parse: which call has been made
    heap,     \* traversal: the objects, by address (a reference is an address)
    pre,      \* traversal: the heap as it was when the last call began
    last,     \* traversal: the last call, its arguments and its outcome
    nops      \* traversal: the number of calls made

vars == <<data, sep, flat, parsed, fpc, heap, pre, last, nops>>
flatVars == <<data, sep, flat, parsed, fpc>>
deepVars == <<heap, pre, last, nops>>

(***************************************************************************)
(* Values of the flatten/parse half: a leaf integer or a dict, the dict an *)
(* insertion-ordered sequence of entries with distinct keys.               *)
(***************************************************************************)
Leaf(n) == [t |-> "int", v |-> <<n>>]
Dict(entries) == [t |-> "dict", v |-> entries]
Entry(k, x) == [key |-> k, val |-> x]
IsDict(x) == x.t = "dict"
EmptyDict == Dict(<<>>)

DictKeys(d) == {d.v[i].key : i \in 1..Len(d.v)}
DictHas(d, k) == \E i \in 1..Len(d.v) : d.v[i].key = k
DictIndex(d, k) == CHOOSE i \in 1..Len(d.v) : d.v[i].key = k
DictGet(d, k) == d.v[DictIndex(d, k)].val

\* d[k] = x : an existing key keeps its position, a new one goes last
DictSet(d, k, x) ==
    IF DictHas(d, k)
    THEN Dict([d.v EXCEPT ![DictIndex(d, k)] = Entry(k, x)])
    ELSE Dict(Append(d.v, Entry(k, x)))

\* dict(items)
RECURSIVE DictOfFrom(_, _, _)
DictOfFrom(items, i, acc) ==
    IF i > Len(items) THEN acc
    ELSE DictOfFrom(items, i + 1, DictSet(acc, items[i].key, items[i].val))
DictOf(items) == DictOfFrom(items, 1, EmptyDict)

\* Python's == on these values: dicts compare without regard to order
RECURSIVE PyEq(_, _)
PyEq(x, y) ==
    IF x.t # y.t THEN FALSE
    ELSE IF x.t = "dict"
    THEN /\ DictKeys(x) = DictKeys(y)
         /\ \A k \in DictKeys(x) : PyEq(DictGet(x, k), DictGet(y, k))
    ELSE x.v = y.v

(***************************************************************************)
(* flatten_nested_dict                                                     *)
(***************************************************************************)
\* new_key = f"{parent_key}{sep}{key}" if parent_key else key, and the variant
\* that joins with the separator also under the empty prefix
NewKeyPrefixed(parent_key, s, key) == parent_key \o s \o key
NewKey(parent_key, s, key) ==
    IF parent_key # <<>> THEN parent_key \o s \o key ELSE key

RECURSIVE FlattenItems(_, _, _, _)
FlattenItems(entries, i, parent_key, s) ==
    IF i > Len(entries) THEN <<>>
    ELSE LET key == entries[i].key
             value == entries[i].val
             new_key == NewKey(parent_key, s, key)
             here == IF IsDict(value)
                     THEN DictOf(FlattenItems(value.v, 1, new_key, s)).v
                     ELSE <<Entry(new_key, value)>>
         IN  here \o FlattenItems(entries, i + 1, parent_key, s)

flatten_nested_dict(d, parent_key, s) == DictOf(FlattenItems(d.v, 1, parent_key, s))

(***************************************************************************)
(* parse_dotted_dict.  The result is computed as a value; a mapping the    *)
(* result shares with the argument (a mapping-valued entry is stored by    *)
(* reference) is not followed back into the argument.                      *)
(***************************************************************************)
Dot == "."

\* key.split(".")
RECURSIVE SplitFrom(_, _, _)
SplitFrom(s, i, cur) ==
    IF i > Len(s) THEN <<cur>>
    ELSE IF s[i] = Dot THEN <<cur>> \o SplitFrom(s, i + 1, <<>>)
    ELSE SplitFrom(s, i + 1, Append(cur, s[i]))
\* the variant that leaves the key whole
SplitWhole(s) == <<s>>
Split(s) == SplitFrom(s, 1, <<>>)

Ok(x) == [err |-> "ok", val |-> x]
Raise(e) == [err |-> e, val |-> EmptyDict]

\* one entry of the loop: walk keys[:-1] with setdefault, then assign keys[-1].
\* temp is the object reached so far; the result is temp after the assignment.
RECURSIVE SetDotted(_, _, _, _)
SetDotted(temp, keys, i, value) ==
    IF i = Len(keys)
    THEN IF IsDict(temp) THEN Ok(DictSet(temp, keys[i], value))
         ELSE Raise("TypeError")
    ELSE IF ~IsDict(temp) THEN Raise("AttributeError")
    ELSE LET sub == IF DictHas(temp, keys[i]) THEN DictGet(temp, keys[i])
                    ELSE EmptyDict
             r == SetDotted(sub, keys, i + 1, value)
         IN  IF r.err # "ok" THEN r ELSE Ok(DictSet(temp, keys[i], r.val))

RECURSIVE ParseFrom(_, _, _)
ParseFrom(entries, i, result) ==
    IF i > Len(entries) THEN Ok(result)
    ELSE LET r == SetDotted(result, Split(entries[i].key), 1, entries[i].val)
         IN  IF r.err # "ok" THEN r ELSE ParseFrom(entries, i + 1, r.val)

parse_dotted_dict(d) == ParseFrom(d.v, 1, EmptyDict)

\* the traversal half at rest, while the flatten/parse half runs
IdleDeep ==
    /\ heap = <<>>
    /\ pre = <<>>
    /\ last = [op |-> "none", path |-> <<>>, value |-> [t |-> "none", v |-> 0],
               fill |-> FALSE, err |-> "ok", ret |-> [t |-> "none", v |-> 0]]
    /\ nops = 0

(***************************************************************************)
(* The inputs of the flatten/parse half: every mapping with at most        *)
(* MaxEntries entries in all (nested ones counted), keys from FlatKeys.    *)
(***************************************************************************)
MaxEntries == 3
FlatKeys == {<<>>, <<"a">>, <<"b">>, <<"a", ".", "b">>}
Leaves == {Leaf(1), Leaf(2)}
Seps == {<<".">>, <<"/">>}

\* a first entry may take a leaf, or a mapping of w - 1 entries, as its value
\* when w of the entries are its own
RECURSIVE EntriesOfSize(_)
ValuesOfWeight(w) ==
    {Dict(e) : e \in EntriesOfSize(w - 1)} \cup (IF w = 1 THEN Leaves ELSE {})

KeyUnused(k, entries) == \A j \in 1..Len(entries) : entries[j].key # k

\* the entry lists of exactly n entries in all: a first entry of weight w
\* before a list of n - w entries that does not use its key
EntriesOfSize(n) ==
    IF n = 0 THEN {<<>>}
    ELSE UNION {
           LET vals == ValuesOfWeight(w)
               rests == EntriesOfSize(n - w)
           IN  UNION { {<<Entry(k, x)>> \o r :
                           x \in vals, r \in {rr \in rests : KeyUnused(k, rr)}}
                       : k \in FlatKeys }
           : w \in 1..n }

NoParse == [err |-> "none", val |-> EmptyDict]

InitFlat ==
    /\ IdleDeep
    /\ \E n \in 0..MaxEntries :
           IF n = 0 THEN data = EmptyDict
           ELSE \E w \in 1..n :
                    LET vals == ValuesOfWeight(w)
                        rests == EntriesOfSize(n - w)
                    IN  \E k \in FlatKeys, x \in vals, r \in rests :
                            /\ KeyUnused(k, r)
                            /\ data = Dict(<<Entry(k, x)>> \o r)
    /\ sep \in Seps
    /\ flat = EmptyDict
    /\ parsed = NoParse
    /\ fpc = "start"

\* flat = flatten_nested_dict(data, sep=sep)
DoFlatten ==
    /\ fpc = "start"
    /\ flat' = flatten_nested_dict(data, <<>>, sep)
    /\ fpc' = "flattened"
    /\ UNCHANGED <<data, sep, parsed>>
    /\ UNCHANGED deepVars

\* parse_dotted_dict(flat), the round trip
DoParseFlat ==
    /\ fpc = "flattened"
    /\ parsed' = parse_dotted_dict(flat)
    /\ fpc' = "roundtrip"
    /\ UNCHANGED <<data, sep, flat>>
    /\ UNCHANGED deepVars

\* parse_dotted_dict(data), the mapping taken as a flat one
DoParse ==
    /\ fpc = "start"
    /\ parsed' = parse_dotted_dict(data)
    /\ fpc' = "parsed"
    /\ UNCHANGED <<data, sep, flat>>
    /\ UNCHANGED deepVars

NextFlat == DoFlatten \/ DoParseFlat \/ DoParse

SpecFlat == InitFlat /\ [][NextFlat]_vars

(***************************************************************************)
(* Properties of the flatten/parse half                                    *)
(***************************************************************************)
Contains(str, c) == \E i \in 1..Len(str) : str[i] = c

\* every key of m, at any depth
RECURSIVE AllKeys(_)
AllKeys(m) ==
    DictKeys(m) \cup
    UNION {IF IsDict(m.v[i].val) THEN AllKeys(m.v[i].val) ELSE {} : i \in 1..Len(m.v)}

\* some mapping-valued entry of m, at any depth, is empty
RECURSIVE HasEmptyMapping(_)
HasEmptyMapping(m) ==
    \E i \in 1..Len(m.v) :
        /\ IsDict(m.v[i].val)
        /\ \/ m.v[i].val.v = <<>>
           \/ HasEmptyMapping(m.v[i].val)

HasNestedMapping(m) == \E i \in 1..Len(m.v) : IsDict(m.v[i].val) /\ m.v[i].val.v # <<>>

\* the leaf (non-mapping-valued) paths of m with their values
RECURSIVE LeafPaths(_)
LeafPaths(m) ==
    UNION {IF IsDict(m.v[i].val)
           THEN {[path |-> <<m.v[i].key>> \o lp.path, val |-> lp.val] :
                     lp \in LeafPaths(m.v[i].val)}
           ELSE {[path |-> <<m.v[i].key>>, val |-> m.v[i].val]}
           : i \in 1..Len(m.v)}

\* s.join(path)
RECURSIVE Join(_, _)
Join(path, s) ==
    IF Len(path) = 1 THEN path[1]
    ELSE path[1] \o s \o Join(Tail(path), s)

NoSepInKeys(m, s) == \A k \in AllKeys(m) : ~Contains(k, s[1])
\* no top-level entry of m has the empty key and a mapping as its value
NoEmptyTopKey(m) == \A i \in 1..Len(m.v) : ~(m.v[i].key = <<>> /\ IsDict(m.v[i].val))

RoundTrips == parsed.err = "ok" /\ PyEq(parsed.val, data)

\* C1 as stated: for every mapping none of whose keys contains '.', also one
\* with empty mapping-valued entries, parse_dotted_dict(flatten_nested_dict(m))
\* equals m.
C1_RoundTripWithEmpty ==
    (fpc = "roundtrip" /\ sep = <<Dot>> /\ NoSepInKeys(data, sep)) => RoundTrips

\* C1 amended: the round trip holds for every mapping whose keys are free of
\* '.', none of whose mapping-valued entries is empty, and no top-level
\* mapping-valued entry of which has the empty key.
C1_RoundTrip ==
    (/\ fpc = "roundtrip" /\ sep = <<Dot>>
     /\ NoSepInKeys(data, sep) /\ NoEmptyTopKey(data) /\ ~HasEmptyMapping(data))
    => RoundTrips

C1_Witness ==
    /\ fpc = "roundtrip" /\ sep = <<Dot>>
    /\ NoSepInKeys(data, sep) /\ NoEmptyTopKey(data) /\ ~HasEmptyMapping(data)
    /\ HasNestedMapping(data)
    /\ Len(data.v) = 2
    /\ RoundTrips

OnePerLeaf(m, s, f) ==
    /\ Len(f.v) = Cardinality(LeafPaths(m))
    /\ \A lp \in LeafPaths(m) :
           /\ DictHas(f, Join(lp.path, s))
           /\ DictGet(f, Join(lp.path, s)) = lp.val
    /\ \A lp1, lp2 \in LeafPaths(m) :
           Join(lp1.path, s) = Join(lp2.path, s) => lp1.path = lp2.path

\* C5 as stated: for all mappings, flatten_nested_dict(m) has exactly one entry
\* per leaf path, keyed by the separator-joined path, and no two leaf paths
\* share a key.
C5_OnePerLeafAlways == fpc = "flattened" => OnePerLeaf(data, sep, flat)

\* C5 amended: the same, for mappings whose keys do not contain the separator
\* and no top-level mapping-valued entry of which has the empty key.
C5_OnePerLeaf ==
    (fpc = "flattened" /\ NoSepInKeys(data, sep) /\ NoEmptyTopKey(data))
    => OnePerLeaf(data, sep, flat)

C5_Witness ==
    /\ fpc = "flattened" /\ NoSepInKeys(data, sep) /\ NoEmptyTopKey(data)
    /\ Cardinality(LeafPaths(data)) = 2
    /\ \E lp \in LeafPaths(data) : Len(lp.path) = 2
    /\ OnePerLeaf(data, sep, flat)

\* the value found by following path through the nested mapping m
RECURSIVE Lookup(_, _)
Lookup(m, path) ==
    IF ~IsDict(m) \/ ~DictHas(m, path[1]) THEN [found |-> FALSE, val |-> EmptyDict]
    ELSE IF Len(path) = 1 THEN [found |-> TRUE, val |-> DictGet(m, path[1])]
    ELSE Lookup(DictGet(m, path[1]), Tail(path))

\* C6 as stated: parse_dotted_dict never raises, and the entry last in
\* iteration order is what the result holds at that entry's path.
C6_NeverRaises ==
    (fpc = "parsed" /\ data.v # <<>>) =>
        /\ parsed.err = "ok"
        /\ LET final == data.v[Len(data.v)]
               r == Lookup(parsed.val, Split(final.key))
           IN  r.found /\ PyEq(r.val, final.val)

(***************************************************************************)
(* The traversal half.  Python objects live in a heap, a sequence indexed  *)
(* by address, so that two references to one object are one object.        *)
(*   value  : [t |-> "int" | "none" | "ref", v |-> Int]                    *)
(*   object : [k |-> "dict" | "list" | "set" | "tuple" | "object",         *)
(*             items |-> Seq]                                              *)
(* The items of a dict are its entries in insertion order, those of an     *)
(* object the entries of its __dict__, those of a list, tuple or set its   *)
(* elements in iteration order.                                            *)
(***************************************************************************)
PInt(n) == [t |-> "int", v |-> n]
PNone == [t |-> "none", v |-> 0]
PRef(a) == [t |-> "ref", v |-> a]
Obj(kind, items) == [k |-> kind, items |-> items]
NewDict == Obj("dict", <<>>)

\* isinstance(curr, kind)
IsKind(h, curr, kind) == curr.t = "ref" /\ h[curr.v].k = kind

HasKey(items, key) == \E i \in 1..Len(items) : items[i].key = key
KeyIndex(items, key) == CHOOSE i \in 1..Len(items) : items[i].key = key
ValueAt(items, key) == items[KeyIndex(items, key)].val
PutKey(items, key, x) ==
    IF HasKey(items, key) THEN [items EXCEPT ![KeyIndex(items, key)] = Entry(key, x)]
    ELSE Append(items, Entry(key, x))
DropAt(items, p) == [j \in 1..(Len(items) - 1) |-> IF j < p THEN items[j] ELSE items[j + 1]]
DropKey(items, key) == DropAt(items, KeyIndex(items, key))

\* int(key): an optional sign and decimal digits, anything else a ValueError
Digits == <<"0", "1", "2", "3", "4", "5", "6", "7", "8", "9">>
IsDigit(c) == \E d \in 1..10 : Digits[d] = c
DigitValue(c) == (CHOOSE d \in 1..10 : Digits[d] = c) - 1
RECURSIVE DigitsValue(_, _)
DigitsValue(str, acc) ==
    IF str = <<>> THEN acc ELSE DigitsValue(Tail(str), 10 * acc + DigitValue(Head(str)))
AllDigits(str) == str # <<>> /\ \A i \in 1..Len(str) : IsDigit(str[i])
ParseInt(key) ==
    IF AllDigits(key) THEN [ok |-> TRUE, val |-> DigitsValue(key, 0)]
    ELSE IF key # <<>> /\ key[1] \in {"-", "+"} /\ AllDigits(Tail(key))
    THEN [ok |-> TRUE,
          val |-> IF key[1] = "-" THEN 0 - DigitsValue(Tail(key), 0)
                  ELSE DigitsValue(Tail(key), 0)]
    ELSE [ok |-> FALSE, val |-> 0]

\* seq[idx] with Python's indices: from 0, negative ones from the end
InRange(idx, len) == 0 - len <= idx /\ idx < len
Position(idx, len) == IF idx >= 0 THEN idx + 1 ELSE len + idx + 1
ItemAt(items, idx) == items[Position(idx, Len(items))]

\* [x] * n
Repeat(x, n) == [j \in 1..n |-> x]

\* the guard of the two creation branches of _traverse, and the variant that
\* creates whatever create_missing says
CreateAlways(create_missing, missing) == missing
ShouldCreate(create_missing, missing) == create_missing /\ missing

\* curr.extend([{}] * (key - len(curr) + 1)): one new dict, at address fresh,
\* referenced from every added slot
ExtendWithDicts(items, key, fresh) == items \o Repeat(PRef(fresh), key - Len(items) + 1)

Walked(h, e, curr) == [heap |-> h, err |-> e, cur |-> curr]

\* _traverse, from the i-th key on
RECURSIVE _traverse(_, _, _, _, _)
_traverse(h, curr, keys, i, create_missing) ==
    IF i > Len(keys) THEN Walked(h, "ok", curr)
    ELSE
    LET key == keys[i] IN
    IF IsKind(h, curr, "dict") THEN
        LET a == curr.v
            fresh == Len(h) + 1
            h1 == IF ShouldCreate(create_missing, ~HasKey(h[a].items, key))
                  THEN Append([h EXCEPT ![a].items = PutKey(@, key, PRef(fresh))], NewDict)
                  ELSE h
            got == IF HasKey(h1[a].items, key) THEN ValueAt(h1[a].items, key) ELSE PNone
        IN  IF got = PNone THEN Walked(h1, "KeyError", got)
            ELSE _traverse(h1, got, keys, i + 1, create_missing)
    ELSE IF IsKind(h, curr, "list") THEN
        LET a == curr.v
            n == ParseInt(key)
            fresh == Len(h) + 1
            h1 == IF ShouldCreate(create_missing, n.val >= Len(h[a].items))
                  THEN Append([h EXCEPT ![a].items = ExtendWithDicts(@, n.val, fresh)], NewDict)
                  ELSE h
        IN  IF ~n.ok THEN Walked(h, "ValueError", curr)
            ELSE IF ~InRange(n.val, Len(h1[a].items)) THEN Walked(h1, "KeyError", curr)
            ELSE _traverse(h1, ItemAt(h1[a].items, n.val), keys, i + 1, create_missing)
    ELSE IF IsKind(h, curr, "set") \/ IsKind(h, curr, "tuple") THEN
        LET a == curr.v
            n == ParseInt(key)
        IN  IF ~n.ok THEN Walked(h, "ValueError", curr)
            ELSE IF ~InRange(n.val, Len(h[a].items)) THEN Walked(h, "KeyError", curr)
            ELSE _traverse(h, ItemAt(h[a].items, n.val), keys, i + 1, create_missing)
    ELSE \* getattr: an int and None have none of the names used as keys here
        IF IsKind(h, curr, "object") /\ HasKey(h[curr.v].items, key)
        THEN _traverse(h, ValueAt(h[curr.v].items, key), keys, i + 1, create_missing)
        ELSE Walked(h, "KeyError", curr)

\* keys[:-1] and keys[-1]
Initial(keys) == SubSeq(keys, 1, Len(keys) - 1)
Final(keys) == keys[Len(keys)]

Outcome(h, e, x) == [heap |-> h, err |-> e, ret |-> x]

get_deep(h, obj, keys) ==
    LET w == _traverse(h, obj, keys, 1, FALSE)
    IN  Outcome(w.heap, w.err, IF w.err = "ok" THEN w.cur ELSE PNone)

\* curr.extend([None] * (final_key - len(curr) + 1)), and the variant that
\* pads one slot short
PadShort(items, final_key) == items \o Repeat(PNone, final_key - Len(items))
PadNone(items, final_key) == items \o Repeat(PNone, final_key - Len(items) + 1)

\* curr[final_key] = value on a list: [err, items]
ListAssign(items, final_key, value) ==
    IF InRange(final_key, Len(items))
    THEN [err |-> "ok", items |-> [items EXCEPT ![Position(final_key, Len(items))] = value]]
    ELSE [err |-> "IndexError", items |-> items]

set_deep(h, obj, keys, value) ==
    LET w == _traverse(h, obj, Initial(keys), 1, TRUE)
        curr == w.cur
        a == curr.v
        final_key == Final(keys)
    IN  IF w.err # "ok" THEN Outcome(w.heap, w.err, PNone)
        ELSE IF IsKind(w.heap, curr, "dict")
        THEN Outcome([w.heap EXCEPT ![a].items = PutKey(@, final_key, value)], "ok", PNone)
        ELSE IF IsKind(w.heap, curr, "list")
        THEN LET n == ParseInt(final_key)
                 padded == IF n.val >= Len(w.heap[a].items)
                           THEN PadNone(w.heap[a].items, n.val)
                           ELSE w.heap[a].items
                 r == ListAssign(padded, n.val, value)
             IN  IF ~n.ok THEN Outcome(w.heap, "ValueError", PNone)
                 ELSE Outcome([w.heap EXCEPT ![a].items = r.items], r.err, PNone)
        ELSE IF IsKind(w.heap, curr, "object")
        THEN Outcome([w.heap EXCEPT ![a].items = PutKey(@, final_key, value)], "ok", PNone)
        ELSE Outcome(w.heap, "AttributeError", PNone)

\* del curr[final_key] on a dict, and the variant that removes nothing
KeepKey(items, key) == items
DelKey(items, key) == DropKey(items, key)

del_deep(h, obj, keys) ==
    LET w == _traverse(h, obj, Initial(keys), 1, FALSE)
        curr == w.cur
        a == curr.v
        final_key == Final(keys)
    IN  IF w.err # "ok" THEN Outcome(w.heap, w.err, PNone)
        ELSE IF IsKind(w.heap, curr, "dict")
        THEN IF HasKey(w.heap[a].items, final_key)
             THEN Outcome([w.heap EXCEPT ![a].items = DelKey(@, final_key)], "ok", PNone)
             ELSE Outcome(w.heap, "KeyError", PNone)
        ELSE IF IsKind(w.heap, curr, "list")
        THEN LET n == ParseInt(final_key)
                 len == Len(w.heap[a].items)
             IN  IF ~n.ok THEN Outcome(w.heap, "ValueError", PNone)
                 ELSE IF ~InRange(n.val, len) THEN Outcome(w.heap, "IndexError", PNone)
                 ELSE Outcome([w.heap EXCEPT ![a].items = DropAt(@, Position(n.val, len))],
                              "ok", PNone)
        ELSE IF IsKind(w.heap, curr, "object") /\ HasKey(w.heap[a].items, final_key)
        THEN Outcome([w.heap EXCEPT ![a].items = DropKey(@, final_key)], "ok", PNone)
        ELSE Outcome(w.heap, "AttributeError", PNone)

set_default_deep(h, obj, keys, value, fillpadding) ==
    LET w == _traverse(h, obj, Initial(keys), 1, TRUE)
        curr == w.cur
        a == curr.v
        final_key == Final(keys)
    IN  IF w.err # "ok" THEN Outcome(w.heap, w.err, PNone)
        ELSE IF IsKind(w.heap, curr, "set") THEN Outcome(w.heap, "IndexError", PNone)
        ELSE IF IsKind(w.heap, curr, "dict")
        THEN IF ~HasKey(w.heap[a].items, final_key)
             THEN Outcome([w.heap EXCEPT ![a].items = PutKey(@, final_key, value)], "ok", PNone)
             ELSE Outcome(w.heap, "ok", PNone)
        ELSE IF IsKind(w.heap, curr, "list")
        THEN LET n == ParseInt(final_key)
                 beyond == n.val >= Len(w.heap[a].items)
                 padded == IF beyond THEN PadNone(w.heap[a].items, n.val)
                           ELSE w.heap[a].items
                 r == ListAssign(padded, n.val, value)
             IN  IF ~n.ok THEN Outcome(w.heap, "ValueError", PNone)
                 ELSE IF beyond /\ ~fillpadding THEN Outcome(w.heap, "IndexError", PNone)
                 ELSE Outcome([w.heap EXCEPT ![a].items = r.items], r.err, PNone)
        ELSE IF IsKind(w.heap, curr, "object")
        THEN IF ~HasKey(w.heap[a].items, final_key)
             THEN Outcome([w.heap EXCEPT ![a].items = PutKey(@, final_key, value)], "ok", PNone)
             ELSE Outcome(w.heap, "ok", PNone)
        ELSE Outcome(w.heap, "AttributeError", PNone)

(***************************************************************************)
(* The traversal half as a state machine: a root object, and calls of the  *)
(* four public functions on it with paths over PathKeys.                   *)
(***************************************************************************)
MaxOps == 1
MaxPathLen == 2
PathKeys == {<<"a">>, <<"0">>, <<"2">>}
Paths == UNION {[1..n -> PathKeys] : n \in 1..MaxPathLen}
Values == {PInt(7), PNone}

Root == PRef(1)
KeyA == <<"a">>
Key0 == <<"0">>

\* the structures the calls start from, the root at address 1
InitHeaps == {
    \* {}
    <<NewDict>>,
    \* {"a": []}
    <<Obj("dict", <<Entry(KeyA, PRef(2))>>), Obj("list", <<>>)>>,
    \* {"a": [1, 2]}
    <<Obj("dict", <<Entry(KeyA, PRef(2))>>), Obj("list", <<PInt(1), PInt(2)>>)>>,
    \* {"a": {"a": 1}}
    <<Obj("dict", <<Entry(KeyA, PRef(2))>>), Obj("dict", <<Entry(KeyA, PInt(1))>>)>>,
    \* {"a": None, "0": 1}
    <<Obj("dict", <<Entry(KeyA, PNone), Entry(Key0, PInt(1))>>)>>,
    \* {"a": {1}}
    <<Obj("dict", <<Entry(KeyA, PRef(2))>>), Obj("set", <<PInt(1)>>)>>,
    \* {"a": (1, 2)}
    <<Obj("dict", <<Entry(KeyA, PRef(2))>>), Obj("tuple", <<PInt(1), PInt(2)>>)>>,
    \* {"a": o} with o.a = 1
    <<Obj("dict", <<Entry(KeyA, PRef(2))>>), Obj("object", <<Entry(KeyA, PInt(1))>>)>>,
    \* [1]
    <<Obj("list", <<PInt(1)>>)>>,
    \* [{"a": 1}]
    <<Obj("list", <<PRef(2)>>), Obj("dict", <<Entry(KeyA, PInt(1))>>)>>,
    \* {"a": l, "0": l} with l = [1]
    <<Obj("dict", <<Entry(KeyA, PRef(2)), Entry(Key0, PRef(2))>>), Obj("list", <<PInt(1)>>)>>,
    \* [[1], None]
    <<Obj("list", <<PRef(2), PNone>>), Obj("list", <<PInt(1)>>)>>
}

NoCall == [op |-> "none", path |-> <<>>, value |-> PNone, fill |-> FALSE,
           err |-> "ok", ret |-> PNone]
Call(op, keys, value, fill, r) ==
    [op |-> op, path |-> keys, value |-> value, fill |-> fill, err |-> r.err, ret |-> r.ret]

IdleFlat ==
    /\ data = EmptyDict
    /\ sep = <<Dot>>
    /\ flat = EmptyDict
    /\ parsed = NoParse
    /\ fpc = "idle"

Init ==
    /\ IdleFlat
    /\ heap \in InitHeaps
    /\ pre = heap
    /\ last = NoCall
    /\ nops = 0

Done(op, keys, value, fill, r) ==
    /\ heap' = r.heap
    /\ pre' = heap
    /\ last' = Call(op, keys, value, fill, r)
    /\ nops' = nops + 1
    /\ UNCHANGED flatVars

GetDeep ==
    /\ nops < MaxOps
    /\ \E keys \in Paths : Done("get", keys, PNone, FALSE, get_deep(heap, Root, keys))

SetDeep ==
    /\ nops < MaxOps
    /\ \E keys \in Paths, value \in Values :
           Done("set", keys, value, FALSE, set_deep(heap, Root, keys, value))

DelDeep ==
    /\ nops < MaxOps
    /\ \E keys \in Paths : Done("del", keys, PNone, FALSE, del_deep(heap, Root, keys))

SetDefaultDeep ==
    /\ nops < MaxOps
    /\ \E keys \in Paths, value \in Values, fillpadding \in BOOLEAN :
           Done("set_default", keys, value, fillpadding,
                set_default_deep(heap, Root, keys, value, fillpadding))

Next == GetDeep \/ SetDeep \/ DelDeep \/ SetDefaultDeep

Spec == Init /\ [][Next]_vars

(***************************************************************************)
(* Properties of the traversal half.  They speak of the last call: pre is  *)
(* the heap it started from, heap the one it left, last its arguments and  *)
(* its outcome.                                                            *)
(***************************************************************************)
\* the container the last call resolved by walking keys[:-1]
Resolved(create_missing) == _traverse(pre, Root, Initial(last.path), 1, create_missing)
FinalKey == Final(last.path)
FinalIndex == ParseInt(FinalKey)

\* the get_deep that follows the last call, on the same path
GetAgain == get_deep(heap, Root, last.path)

\* C2 as stated: after a set_deep that succeeds, get_deep on the same path
\* returns the value, whatever the value.
C2_GetAfterSet ==
    (last.op = "set" /\ last.err = "ok") =>
        (GetAgain.err = "ok" /\ GetAgain.ret = last.value)

\* the final segment is present in the object: a key of the mapping, an index
\* within the length of the sequence, an attribute that is set
Present(obj, key) ==
    IF obj.k \in {"dict", "object"} THEN HasKey(obj.items, key)
    ELSE IF obj.k = "list" THEN ParseInt(key).ok /\ InRange(ParseInt(key).val, Len(obj.items))
    ELSE FALSE
Stored(obj, key) ==
    IF obj.k \in {"dict", "object"} THEN ValueAt(obj.items, key)
    ELSE ItemAt(obj.items, ParseInt(key).val)

\* C3 as stated: set_default_deep leaves the value of a final segment that is
\* present unchanged, in a mapping, a sequence and an object alike.
C3_NoOverwrite ==
    last.op = "set_default" =>
        LET w == Resolved(TRUE)
        IN  (w.err = "ok" /\ w.cur.t = "ref" /\ Present(w.heap[w.cur.v], FinalKey)) =>
                /\ Present(heap[w.cur.v], FinalKey)
                /\ Stored(heap[w.cur.v], FinalKey) = Stored(w.heap[w.cur.v], FinalKey)

\* C4 as stated: after a del_deep that succeeds, get_deep on the same path
\* fails with KeyError, for a mapping and for a sequence.
C4_GetAfterDelFails ==
    (last.op = "del" /\ last.err = "ok") => GetAgain.err = "KeyError"

\* C4 amended: after a del_deep that succeeds on a mapping, get_deep on the
\* same path fails with KeyError; on a sequence the later elements move down,
\* and get_deep fails with KeyError only if the index is no longer within the
\* shortened sequence, and otherwise returns the element now at that index.
C4_GetAfterDel ==
    (last.op = "del" /\ last.err = "ok") =>
        LET w == Resolved(FALSE)
            now == heap[w.cur.v].items
        IN  /\ IsKind(pre, w.cur, "dict") => GetAgain.err = "KeyError"
            /\ IsKind(pre, w.cur, "list") =>
                   IF InRange(FinalIndex.val, Len(now))
                   THEN GetAgain.err = "ok" /\ GetAgain.ret = ItemAt(now, FinalIndex.val)
                   ELSE GetAgain.err = "KeyError"

C4_Witness ==
    /\ last.op = "del" /\ last.err = "ok"
    /\ Len(last.path) = 2
    /\ IsKind(pre, Resolved(FALSE).cur, "dict")
    /\ GetAgain.err = "KeyError"

\* C7 as stated: del_deep fails with KeyError, and removes nothing, when the
\* final segment is absent from the resolved mapping or out of range in the
\* resolved sequence.
C7_DelAbsentKeyError ==
    last.op = "del" =>
        LET w == Resolved(FALSE)
        IN  (/\ w.err = "ok"
             /\ \/ IsKind(pre, w.cur, "dict") /\ ~HasKey(pre[w.cur.v].items, FinalKey)
                \/ /\ IsKind(pre, w.cur, "list") /\ FinalIndex.ok
                   /\ ~InRange(FinalIndex.val, Len(pre[w.cur.v].items)))
            => (last.err = "KeyError" /\ heap = pre)

\* C8: set_default_deep on a sequence of length L with a final index i >= L:
\* with fillpadding the sequence gets length i+1, keeps its first L elements,
\* holds None at L..i-1 and the value at i; without it the call fails with
\* IndexError and the sequence is as it was.
C8_FillPadding ==
    last.op = "set_default" =>
        LET w == Resolved(TRUE)
            old == pre[w.cur.v].items
            new == heap[w.cur.v].items
            L == Len(old)
            i == FinalIndex.val
        IN  (w.err = "ok" /\ IsKind(w.heap, w.cur, "list") /\ FinalIndex.ok /\ i >= L) =>
                IF last.fill
                THEN /\ last.err = "ok"
                     /\ Len(new) = i + 1
                     /\ \A j \in 1..L : new[j] = old[j]
                     /\ \A j \in (L + 1)..i : new[j] = PNone
                     /\ new[i + 1] = last.value
                ELSE /\ last.err = "IndexError"
                     /\ new = old

C8_Witness ==
    /\ last.op = "set_default" /\ last.fill /\ last.err = "ok"
    /\ LET w == Resolved(TRUE)
       IN  /\ w.err = "ok" /\ IsKind(w.heap, w.cur, "list")
           /\ Len(pre[w.cur.v].items) = 1
           /\ FinalIndex.ok /\ FinalIndex.val = 2
           /\ heap[w.cur.v].items = <<PInt(1), PNone, last.value>>

\* C9 as stated: when set_deep or set_default_deep walks through a sequence of
\* length L at an intermediate index i >= L, the sequence is extended to
\* length i+1 and the slots L..i-1 still hold empty mappings after the call.
C9_PaddingStaysEmpty ==
    (last.op \in {"set", "set_default"} /\ last.err = "ok") =>
        \A j \in 1..(Len(last.path) - 1) :
            LET w == _traverse(pre, Root, SubSeq(last.path, 1, j - 1), 1, TRUE)
                n == ParseInt(last.path[j])
                L == Len(w.heap[w.cur.v].items)
            IN  (w.err = "ok" /\ IsKind(w.heap, w.cur, "list") /\ n.ok /\ n.val >= L) =>
                    /\ Len(heap[w.cur.v].items) = n.val + 1
                    /\ \A p \in (L + 1)..n.val :
                           /\ IsKind(heap, heap[w.cur.v].items[p], "dict")
                           /\ heap[heap[w.cur.v].items[p].v].items = <<>>

\* C10: get_deep leaves the structure as it was, whether it succeeds or fails,
\* and so does a del_deep that fails on an absent ancestor.
C10_NoCreation ==
    /\ last.op = "get" => heap = pre
    /\ (last.op = "del" /\ Resolved(FALSE).err # "ok") =>
           (heap = pre /\ last.err = Resolved(FALSE).err)

C10_Witness ==
    /\ last.op = "del" /\ last.err = "KeyError"
    /\ Len(last.path) = 2
    /\ IsKind(pre, Root, "dict") /\ ~HasKey(pre[1].items, last.path[1])
    /\ heap = pre

====
